---- MODULE Spec2Model ----
(***************************************************************************)
(* Agents of the hexagonal predator/prey simulation (agent/agents.go).     *)
(*                                                                         *)
(* An agent is a Go struct built from embedded trait structs.  The traits  *)
(* communicate through pointers to variables that the constructor          *)
(* allocates (goal, alive) and through closures capturing them, so the     *)
(* model keeps a small heap: heap.hx[k] and heap.bl[k] are the `goal` and  *)
(* `alive` variables allocated by the constructor call that built the      *)
(* agent in slot k, and an agent's record holds the addresses its traits   *)
(* were given.  Hex and World are not part of agents.go; their operations  *)
(* are modelled from the written specification.                            *)
(***************************************************************************)
EXTENDS Integers, Sequences, FiniteSets, TLC

VARIABLES
    size,     \* the side of the world, as given to NewWorld
    heap,     \* the objects: ag, slot -> agent struct; hx and bl, address ->
              \* value of the `goal` / `alive` variable allocated there
    pop,      \* slots of the agents in the world's population
    queue,    \* slots of the agents spawned in this tick, not yet added
    phase,    \* position of World.Update: the phase to run next
    age,      \* slot -> Update calls the population has made on a Scent
    last,     \* the last method call: op, receiver, argument, result
    walk      \* bookkeeping of one walk to a goal (WalkSpec)

vars == <<size, heap, pop, queue, phase, age, last, walk>>

----------------------------------------------------------------------------
(* Bounds and scenarios *)

\* Side of the world in the scenarios of a stationary emitter (main builds
\* NewWorld(12)).
WideWorld == 3

\* Side of the world in the scenarios of two roaming objects.
SmallWorld == 2

\* The rates an Emitter is built with range over -MaxRate .. MaxRate.
MaxRate == 2

\* Emitter rate given to Food by NewFood.
FoodRate == 5

\* The nil pointer / the nil Agent.
Nil == 0

----------------------------------------------------------------------------
(* Hex and World *)

Coords(n) == 0 .. (n - 1)

\* World.Random: any cell of the grid.
Cells(n) == Coords(n) \X Coords(n)

\* World.RandomBorder: any cell of the outer boundary.
BorderCells(n) ==
    {h \in Cells(n) : \/ h[1] = 0 \/ h[1] = n - 1
                      \/ h[2] = 0 \/ h[2] = n - 1}

\* The zero Hex held by an unused slot of the heap.
NoHex == <<-1, -1>>

Abs(x) == IF x < 0 THEN -x ELSE x

Max2(x, y) == IF x < y THEN y ELSE x

\* Hex.Distance: axial hex distance max(|dr|, |dc|, |dr + dc|).
Distance(a, b) ==
    LET dr == b[1] - a[1]
        dc == b[2] - a[2]
    IN  Max2(Abs(dr), Max2(Abs(dc), Abs(dr + dc)))

\* The six neighbour directions, in the fixed enumeration order.
Dirs == << <<1, 0>>, <<0, 1>>, <<-1, 1>>, <<-1, 0>>, <<0, -1>>, <<1, -1>> >>

Neighbor(h, k) == <<h[1] + Dirs[k][1], h[2] + Dirs[k][2]>>

\* The first direction, in enumeration order from k on, whose neighbour of
\* h is nearest to the goal (b is the best seen before k).
RECURSIVE Nearest(_, _, _, _)
Nearest(h, goal, k, b) ==
    IF k > 6 THEN b
    ELSE IF Distance(Neighbor(h, k), goal) < Distance(Neighbor(h, b), goal)
         THEN Nearest(h, goal, k + 1, k)
         ELSE Nearest(h, goal, k + 1, b)

\* Hex.Closer: the neighbour nearest to the goal, the first such in the
\* enumeration order; no move when already on the goal.
Closer(h, goal) ==
    IF h = goal THEN h ELSE Neighbor(h, Nearest(h, goal, 2, 1))

\* Hex.Copy: assignment of the argument to the receiver.
Copy(h, other) == other

----------------------------------------------------------------------------
(* Agent structs *)

\* The slots of the scenario: one per object that is or may be constructed.
Slots == DOMAIN heap.ag

\* No object: the state of a slot before its constructor has run.
NoAgent ==
    [kind |-> "none", loc |-> NoHex, goal |-> Nil, reached |-> "none",
     cgoal |-> Nil, calive |-> Nil, sfgoal |-> Nil, alive |-> Nil,
     byPredator |-> Nil, byPrey |-> Nil, origin |-> NoHex,
     emitter |-> FALSE, rate |-> 0]

FreeSlots(st) == {i \in DOMAIN st.ag : st.ag[i].kind = "none"}

\* An agent struct embeds one trait struct per method; the record holds
\* what each embedded trait holds: goal (Mobile; Nil: Stationary), reached,
\* cgoal, calive (the ReachedGoal closure and the variables it captured),
\* sfgoal (ScentFollower; Nil: NoScentAction), alive (Mortal; Nil:
\* Immortal), byPredator (EatenByPredator; Nil: NoPredatorAction), byPrey
\* (EatenByPrey; Nil: NoPreyAction), origin (Emitted), emitter and rate
\* (Emitter; FALSE: NonEmitter).

\* Generic.Position (the embedded Hex).
Position(st, i) == st.ag[i].loc

\* Immortal.Alive.
ImmortalAlive == TRUE

\* Mortal.Alive answering true whatever the variable holds.
MortalAliveStale(st, i) == TRUE

\* Mortal.Alive: the value of the external alive variable.
MortalAlive(st, i) == st.bl[st.ag[i].alive]

\* Agent.Alive on the agent in slot i.
Alive(st, i) ==
    IF st.ag[i].alive # Nil THEN MortalAlive(st, i) ELSE ImmortalAlive

\* Emitted.Origin returning the current position instead of the origin.
OriginMoving(st, i) == st.ag[i].loc

\* Emitted.Origin.
Origin(st, i) == st.ag[i].origin

\* The ReachedGoal closures, with the write of NewScent's closure lost.
ReachedGoalNoDeath(st, i, cell) ==
    LET a == st.ag[i]
    IN  CASE a.reached = "regoal" ->
                [st EXCEPT !.hx[a.cgoal] = Copy(st.hx[a.cgoal], cell)]
          [] OTHER -> st

\* The ReachedGoal closures: NewPredator and NewPrey copy a random cell into
\* the captured goal variable, NewScent clears the captured alive variable.
ReachedGoal(st, i, cell) ==
    LET a == st.ag[i]
    IN  CASE a.reached = "regoal" ->
                [st EXCEPT !.hx[a.cgoal] = Copy(st.hx[a.cgoal], cell)]
          [] a.reached = "die" -> [st EXCEPT !.bl[a.calive] = FALSE]
          [] OTHER -> st

\* Mobile.Update testing for arrival before the step instead of after it.
MobileUpdateLate(st, i, cell) ==
    LET a == st.ag[i]
        moved == [st EXCEPT !.ag[i].loc = Closer(a.loc, st.hx[a.goal])]
    IN  IF Position(st, i) = st.hx[a.goal]
        THEN ReachedGoal(moved, i, cell)
        ELSE moved

\* Mobile.Update: one step closer to *goal, then ReachedGoal when on it.
MobileUpdate(st, i, cell) ==
    LET a == st.ag[i]
        moved == [st EXCEPT !.ag[i].loc = Closer(a.loc, st.hx[a.goal])]
    IN  IF Position(moved, i) = moved.hx[a.goal]
        THEN ReachedGoal(moved, i, cell)
        ELSE moved

\* Stationary.Update stepping toward the first cell of the grid.
StationaryUpdateDrift(st, i) ==
    [st EXCEPT !.ag[i].loc = Closer(@, <<0, 0>>)]

\* Stationary.Update.
StationaryUpdate(st, i) == st

\* Agent.Update on the agent in slot i; cell is the value World.Random
\* returns if the closure asks for one.
Update(st, i, cell) ==
    IF st.ag[i].goal # Nil THEN MobileUpdate(st, i, cell)
    ELSE StationaryUpdate(st, i)

\* Whether Update on slot i asks World.Random for a cell: whether it
\* overwrites the goal variable its closure captured.
AsksRandom(st, i) ==
    /\ st.ag[i].reached = "regoal"
    /\ Update(st, i, NoHex).hx[st.ag[i].cgoal] = NoHex

\* The cells World.Random can return to Update on slot i, in a world of
\* side n.
RandomFor(st, i, n) == IF AsksRandom(st, i) THEN Cells(n) ELSE {NoHex}

\* NoPredatorAction.AcceptPredator.
NoPredatorAction(st, i) == st

\* NoPreyAction.AcceptPrey.
NoPreyAction(st, i) == st

\* NoScentAction.AcceptScent.
NoScentAction(st, i) == st

\* EatenByPredator.AcceptPredator flipping the variable instead of clearing
\* it.
EatenByPredatorToggle(st, i) ==
    [st EXCEPT !.bl[st.ag[i].byPredator] = ~@]

\* EatenByPredator.AcceptPredator with the write lost.
EatenByPredatorLost(st, i) == st

\* EatenByPredator.AcceptPredator.
EatenByPredator(st, i) == [st EXCEPT !.bl[st.ag[i].byPredator] = FALSE]

\* EatenByPrey.AcceptPrey with the write lost.
EatenByPreyLost(st, i) == st

\* EatenByPrey.AcceptPrey.
EatenByPrey(st, i) == [st EXCEPT !.bl[st.ag[i].byPrey] = FALSE]

\* ScentFollower.AcceptScent taking the scent's position for its origin.
ScentFollowerAcceptPosition(st, i, s) ==
    [st EXCEPT !.hx[st.ag[i].sfgoal] = Position(st, s)]

\* ScentFollower.AcceptScent that also uses the scent up: it clears the
\* alive variable of s.
ScentFollowerAcceptConsume(st, i, s) ==
    [st EXCEPT !.hx[st.ag[i].sfgoal] = Origin(st, s),
               !.bl[st.ag[s].alive] = FALSE]

\* ScentFollower.AcceptScent: *goal = s.Origin().
ScentFollowerAccept(st, i, s) ==
    [st EXCEPT !.hx[st.ag[i].sfgoal] = Origin(st, s)]

\* Agent.AcceptPredator on the agent in slot i.
AcceptPredator(st, i, p) ==
    IF st.ag[i].byPredator # Nil THEN EatenByPredator(st, i)
    ELSE NoPredatorAction(st, i)

\* Agent.AcceptPrey on the agent in slot i.
AcceptPrey(st, i, p) ==
    IF st.ag[i].byPrey # Nil THEN EatenByPrey(st, i)
    ELSE NoPreyAction(st, i)

\* Agent.AcceptScent on the agent in slot i.
AcceptScent(st, i, s) ==
    IF st.ag[i].sfgoal # Nil THEN ScentFollowerAccept(st, i, s)
    ELSE NoScentAction(st, i)

----------------------------------------------------------------------------
(* Constructors.  The object built in slot k owns the variables at address *)
(* k: its `goal` in hx[k] and its `alive` in bl[k].                        *)

\* NewGeneric placing the agent one row past the cell World.Random returned.
NewGenericOffByOne(cell) == <<cell[1] + 1, cell[2]>>

\* NewGeneric: at a random location of the world.
NewGeneric(cell) == cell

\* NewPredator composed as a Prey is: Mortal and EatenByPredator on a fresh
\* alive variable.
NewPredatorMortal(st, k, goalCell, locCell) ==
    [st EXCEPT
        !.hx[k] = goalCell,
        !.bl[k] = TRUE,
        !.ag[k] = [NoAgent EXCEPT
            !.kind = "Predator", !.loc = NewGeneric(locCell),
            !.goal = k, !.reached = "regoal", !.cgoal = k, !.sfgoal = k,
            !.alive = k, !.byPredator = k]]

\* NewPredator: goal := w.Random(); Mobile and ScentFollower get &goal and
\* the closure captures goal.
NewPredator(st, k, goalCell, locCell) ==
    [st EXCEPT
        !.hx[k] = goalCell,
        !.ag[k] = [NoAgent EXCEPT
            !.kind = "Predator", !.loc = NewGeneric(locCell),
            !.goal = k, !.reached = "regoal", !.cgoal = k, !.sfgoal = k]]

\* NewPrey given the ReachedGoal closure of a Scent: it clears alive.
NewPreyDiesAtGoal(st, k, goalCell, locCell) ==
    [st EXCEPT
        !.hx[k] = goalCell,
        !.bl[k] = TRUE,
        !.ag[k] = [NoAgent EXCEPT
            !.kind = "Prey", !.loc = NewGeneric(locCell),
            !.goal = k, !.reached = "die", !.calive = k, !.sfgoal = k,
            !.alive = k, !.byPredator = k]]

\* NewPrey with `goal` one variable of the package instead of a variable of
\* the call: every Prey is given the address of the first one allocated.
NewPreySharedGoal(st, k, goalCell, locCell) ==
    [st EXCEPT
        !.hx[1] = goalCell,
        !.bl[k] = TRUE,
        !.ag[k] = [NoAgent EXCEPT
            !.kind = "Prey", !.loc = NewGeneric(locCell),
            !.goal = 1, !.reached = "regoal", !.cgoal = 1, !.sfgoal = 1,
            !.alive = k, !.byPredator = k]]

\* NewPrey: as NewPredator, with alive := true given to Mortal and to
\* EatenByPredator.
NewPrey(st, k, goalCell, locCell) ==
    [st EXCEPT
        !.hx[k] = goalCell,
        !.bl[k] = TRUE,
        !.ag[k] = [NoAgent EXCEPT
            !.kind = "Prey", !.loc = NewGeneric(locCell),
            !.goal = k, !.reached = "regoal", !.cgoal = k, !.sfgoal = k,
            !.alive = k, !.byPredator = k]]

\* NewFood with `alive` one variable of the package instead of a variable of
\* the call: every Food is given the address of the first one allocated.
NewFoodSharedAlive(st, k, locCell) ==
    [st EXCEPT
        !.bl[1] = TRUE,
        !.ag[k] = [NoAgent EXCEPT
            !.kind = "Food", !.loc = locCell, !.alive = 1, !.byPrey = 1,
            !.emitter = TRUE, !.rate = FoodRate]]

\* NewFood: alive := true given to Mortal and to EatenByPrey; Emitter{5, nil}
\* and then Emit = NewScent(&f).
NewFood(st, k, locCell) ==
    [st EXCEPT
        !.bl[k] = TRUE,
        !.ag[k] = [NoAgent EXCEPT
            !.kind = "Food", !.loc = locCell, !.alive = k, !.byPrey = k,
            !.emitter = TRUE, !.rate = FoodRate]]

\* NewScent(a): at a's position, origin a copy of it, goal a random border
\* cell, alive := true captured by the closure and given to Mortal.
NewScent(st, k, a, borderCell) ==
    [st EXCEPT
        !.hx[k] = borderCell,
        !.bl[k] = TRUE,
        !.ag[k] = [NoAgent EXCEPT
            !.kind = "Scent", !.loc = Position(st, a), !.goal = k,
            !.reached = "die", !.calive = k, !.alive = k,
            !.origin = Position(st, a)]]

\* NonEmitter.Spawn.
NonEmitterSpawn == Nil

\* Emitter.Spawn with the test of the draw inverted.
EmitterSpawnInverted(draw, k) == IF draw # 0 THEN k ELSE Nil

\* Emitter.Spawn: Emit() when rand.Intn(rate) is 0, else nil.  The result
\* is the slot the emitted agent is built in (k), or Nil.
EmitterSpawn(draw, k) == IF draw = 0 THEN k ELSE Nil

\* Agent.Spawn on the agent in slot i, with the value rand.Intn returned.
Spawn(st, i, draw, k) ==
    IF st.ag[i].emitter THEN EmitterSpawn(draw, k)
    ELSE NonEmitterSpawn

\* Whether Spawn on slot i returns an agent on this draw.
Emits(st, i, draw) == Spawn(st, i, draw, 1) # Nil

\* The objects after Spawn on slot i: Food's Emit runs NewScent(&f).
Spawned(st, i, draw, k, borderCell) ==
    IF Spawn(st, i, draw, k) = Nil THEN st
    ELSE NewScent(st, Spawn(st, i, draw, k), i, borderCell)

\* rand.Intn taking a non-positive n for 1.
IntnClamped(n) == IF n <= 0 THEN {0} ELSE 0 .. (n - 1)

\* rand.Intn(n): the values it can return; none when it panics, which it
\* does for n <= 0.
Intn(n) == IF n <= 0 THEN {} ELSE 0 .. (n - 1)

\* The values rand.Intn(rate) can return for the agent in slot i.
Draws(st, i) ==
    IF st.ag[i].emitter THEN Intn(st.ag[i].rate) ELSE {0}

\* Whether Spawn on slot i panics: Emitter.Spawn calls rand.Intn(rate)
\* before anything else.
SpawnPanics(st, i) == st.ag[i].emitter /\ Intn(st.ag[i].rate) = {}

\* A Food-like struct literal with Emitter{rate, Emit} of any rate.
NewEmitter(st, k, locCell, rate) ==
    [NewFood(st, k, locCell) EXCEPT !.ag[k].rate = rate]

----------------------------------------------------------------------------
(* Scenarios: the objects that exist.  A scenario lists the constructor    *)
(* run for each slot at start-up; a "none" slot is where a Scent may be    *)
(* built later.                                                            *)

\* The heap before any constructor has run.
Empty(n) ==
    [ag |-> [i \in 1 .. n |-> NoAgent],
     hx |-> [i \in 1 .. n |-> NoHex],
     bl |-> [i \in 1 .. n |-> FALSE]]

\* The heaps one constructor call can leave, over the cells World.Random
\* can return in a world of side n.
Constructed(st, k, kind, n) ==
    CASE kind = "Predator" ->
            {NewPredator(st, k, g, l) : g \in Cells(n), l \in Cells(n)}
      [] kind = "Prey" ->
            {NewPrey(st, k, g, l) : g \in Cells(n), l \in Cells(n)}
      [] kind = "Food" -> {NewFood(st, k, l) : l \in Cells(n)}
      [] OTHER -> {st}

RECURSIVE Built(_, _, _)
Built(cast, k, n) ==
    IF k = 0 THEN {Empty(Len(cast))}
    ELSE UNION {Constructed(st, k, cast[k], n) : st \in Built(cast, k - 1, n)}

\* The start-up heaps of a scenario: a world of side n with these objects.
Scene(cast, n) == Built(cast, Len(cast), n)

NoCall == [op |-> "none", self |-> Nil, arg |-> Nil, ret |-> Nil,
           draw |-> 0]

NoWalk == [on |-> FALSE, who |-> Nil, g0 |-> NoHex, d0 |-> 0,
           steps |-> 0, fires |-> 0]

----------------------------------------------------------------------------
(* Spec: any sequence of method calls on the objects of a scenario.        *)

\* Scenarios of a stationary emitter, in the wide world.
WideCasts == { <<"Food", "none">>, <<"Predator", "Food">>, <<"Prey", "Food">> }

\* Scenarios of roaming objects, in the small world.
SmallCasts == { <<"Predator", "none">>, <<"Prey", "none">>,
                <<"Predator", "Prey">>, <<"Predator", "Predator">> }

\* What every specification starts with outside the objects.
Idle ==
    /\ pop = {}
    /\ queue = {}
    /\ phase = "idle"
    /\ age = [i \in Slots |-> 0]
    /\ last = NoCall
    /\ walk = NoWalk

Init ==
    /\ size = WideWorld
    /\ \E cast \in WideCasts : heap \in Scene(cast, size)
    /\ Idle

RoamInit ==
    /\ size = SmallWorld
    /\ \E cast \in SmallCasts : heap \in Scene(cast, size)
    /\ Idle

Objects == {i \in Slots : heap.ag[i].kind # "none"}

OfKind(kind) == {i \in Slots : heap.ag[i].kind = kind}

Least(S) == CHOOSE k \in S : \A j \in S : k <= j

\* The slot the next constructor call builds in.
NextSlot(st) == Least(FreeSlots(st))

\* p := NewScent(a), called directly as main does.
CallNewScent(a) ==
    /\ a \in Objects
    /\ heap.ag[a].kind # "Scent"
    /\ FreeSlots(heap) # {}
    /\ \E b \in BorderCells(size) :
          heap' = NewScent(heap, NextSlot(heap), a, b)
    /\ last' = [NoCall EXCEPT !.op = "NewScent", !.self = NextSlot(heap),
                              !.arg = a, !.ret = NextSlot(heap)]
    /\ UNCHANGED <<size, pop, queue, phase, age, walk>>

\* a.Update()
CallUpdate(i) ==
    /\ i \in Objects
    /\ \E cell \in RandomFor(heap, i, size) : heap' = Update(heap, i, cell)
    /\ last' = [NoCall EXCEPT !.op = "Update", !.self = i]
    /\ UNCHANGED <<size, pop, queue, phase, age, walk>>

\* a.Spawn()
CallSpawn(i) ==
    /\ i \in Objects
    /\ \E draw \in Draws(heap, i) :
          LET k == IF FreeSlots(heap) = {} THEN Nil ELSE NextSlot(heap)
          IN  /\ k = Nil => ~Emits(heap, i, draw)
              /\ \E b \in IF Spawn(heap, i, draw, k) = Nil
                          THEN {NoHex} ELSE BorderCells(size) :
                    heap' = Spawned(heap, i, draw, k, b)
              /\ last' = [NoCall EXCEPT !.op = "Spawn", !.self = i,
                                        !.draw = draw,
                                        !.ret = Spawn(heap, i, draw, k)]
    /\ UNCHANGED <<size, pop, queue, phase, age, walk>>

\* a.AcceptPredator(p)
CallAcceptPredator(i, p) ==
    /\ i \in Objects
    /\ p \in OfKind("Predator") \ {i}
    /\ heap' = AcceptPredator(heap, i, p)
    /\ last' = [NoCall EXCEPT !.op = "AcceptPredator", !.self = i, !.arg = p]
    /\ UNCHANGED <<size, pop, queue, phase, age, walk>>

\* a.AcceptPrey(p)
CallAcceptPrey(i, p) ==
    /\ i \in Objects
    /\ p \in OfKind("Prey") \ {i}
    /\ heap' = AcceptPrey(heap, i, p)
    /\ last' = [NoCall EXCEPT !.op = "AcceptPrey", !.self = i, !.arg = p]
    /\ UNCHANGED <<size, pop, queue, phase, age, walk>>

\* a.AcceptScent(s)
CallAcceptScent(i, s) ==
    /\ i \in Objects
    /\ s \in OfKind("Scent") \ {i}
    /\ heap' = AcceptScent(heap, i, s)
    /\ last' = [NoCall EXCEPT !.op = "AcceptScent", !.self = i, !.arg = s]
    /\ UNCHANGED <<size, pop, queue, phase, age, walk>>

Next ==
    \/ \E a \in Slots : CallNewScent(a)
    \/ \E i \in Slots : CallUpdate(i)
    \/ \E i \in Slots : CallSpawn(i)
    \/ \E i \in Slots, p \in Slots : CallAcceptPredator(i, p)
    \/ \E i \in Slots, p \in Slots : CallAcceptPrey(i, p)
    \/ \E i \in Slots, s \in Slots : CallAcceptScent(i, s)

Spec == Init /\ [][Next]_vars

RoamSpec == RoamInit /\ [][Next]_vars

\* Scenarios with every kind of agent and every reaction, in the small
\* world.
MixCasts == { <<"Predator", "Prey">>, <<"Prey", "Food">>,
              <<"Food", "none">>, <<"Prey", "none">> }

MixInit ==
    /\ size = SmallWorld
    /\ \E cast \in MixCasts : heap \in Scene(cast, size)
    /\ Idle

MixSpec == MixInit /\ [][Next]_vars

\* Scenarios of two agents of which one or both move.
PairCasts == { <<"Predator", "Prey">>, <<"Prey", "Food">>, <<"Prey", "none">> }

PairInit ==
    /\ size = SmallWorld
    /\ \E cast \in PairCasts : heap \in Scene(cast, size)
    /\ Idle

\* Updates on the agents, in any order, and NewScent.
PairNext ==
    \/ \E a \in Slots : CallNewScent(a)
    \/ \E i \in Slots : CallUpdate(i)

PairSpec == PairInit /\ [][PairNext]_vars

\* a.Spawn() where the call may panic; a panic ends the program.
SpawnOrPanic(i) ==
    /\ last.op # "panic"
    /\ \/ /\ ~SpawnPanics(heap, i)
          /\ CallSpawn(i)
       \/ /\ i \in Objects
          /\ SpawnPanics(heap, i)
          /\ last' = [NoCall EXCEPT !.op = "panic", !.self = i]
          /\ UNCHANGED <<size, heap, pop, queue, phase, age, walk>>

\* One emitter of any rate, with room for the Scent it emits.
EmitInit ==
    /\ size = WideWorld
    /\ heap \in {NewEmitter(Empty(2), 1, l, r) :
                    l \in Cells(size), r \in (0 - MaxRate) .. MaxRate}
    /\ Idle

EmitNext == \E i \in Slots : SpawnOrPanic(i)

EmitSpec == EmitInit /\ [][EmitNext]_vars

\* Scenario of one follower and the Scents built on it.
FollowCasts == { <<"Predator", "none">> }

FollowInit ==
    /\ size = SmallWorld
    /\ \E cast \in FollowCasts : heap \in Scene(cast, size)
    /\ Idle

\* NewScent, Updates and AcceptScent, in any order.
FollowNext ==
    \/ \E a \in Slots : CallNewScent(a)
    \/ \E i \in Slots : CallUpdate(i)
    \/ \E i \in Slots, s \in Slots : CallAcceptScent(i, s)

FollowSpec == FollowInit /\ [][FollowNext]_vars

----------------------------------------------------------------------------
(* TickSpec: World.Update, one tick of the simulation, in its four phases  *)
(* Move, Interact, Spawn, Commit.                                          *)

\* Move: a.Update() for every agent of the population.  The result is the
\* set of heaps the random re-goals allow.
RECURSIVE Moved(_, _, _)
Moved(st, todo, n) ==
    IF todo = {} THEN {st}
    ELSE UNION {Moved(nx, rest, n) :
                   nx \in {Update(st, Least(todo), c) :
                              c \in RandomFor(st, Least(todo), n)},
                   rest \in {todo \ {Least(todo)}}}

\* The encounters of a tick: ordered pairs of distinct agents of the
\* population on one cell.
Encounters(st, members) ==
    {e \in members \X members :
        e[1] # e[2] /\ Position(st, e[1]) = Position(st, e[2])}

\* One encounter: a is notified of b by the method for b's kind.
Encounter(st, a, b) ==
    CASE st.ag[b].kind = "Predator" -> AcceptPredator(st, a, b)
      [] st.ag[b].kind = "Prey" -> AcceptPrey(st, a, b)
      [] st.ag[b].kind = "Scent" -> AcceptScent(st, a, b)
      [] OTHER -> st

\* The unordered pairs of agents sharing a cell.
Meetings(st, members) == {{e[1], e[2]} : e \in Encounters(st, members)}

\* One pair resolved: each of the two is notified of the other, in either
\* order.
Met(st, m) ==
    {Encounter(Encounter(st, e[1], e[2]), e[2], e[1]) :
        e \in {e \in m \X m : e[1] # e[2]}}

\* From the heap r[1] with the pairs r[2] left: any one of them resolved.
Resolved(r) ==
    UNION {{<<h, r[2] \ {m}>> : h \in Met(r[1], m)} : m \in r[2]}

\* The <<heap, pairs left>> after k more pairs are resolved from those in
\* lv.
RECURSIVE Dispatched(_, _)
Dispatched(lv, k) ==
    IF k = 0 THEN lv
    ELSE Dispatched(UNION {Resolved(r) : r \in lv}, k - 1)

\* Interact: every unordered pair sharing a cell resolved once, in some
\* order, with both of its reactions dispatched.
Interacted(st, todo) ==
    {r[1] : r \in Dispatched({<<st, todo>>}, Cardinality(todo))}

\* Spawn: a.Spawn() for every agent of the population; a non-nil result is
\* queued.  The result is the set of <<heap, queue>> the draws allow; with
\* no slot left the draw that emits is not taken.
RECURSIVE SpawnedAll(_, _, _, _)
SpawnedAll(st, q, todo, n) ==
    IF todo = {} THEN {<<st, q>>}
    ELSE LET i == Least(todo)
             k == IF FreeSlots(st) = {} THEN Nil ELSE NextSlot(st)
             draws == {d \in Draws(st, i) : k = Nil => ~Emits(st, i, d)}
             quiet == {<<st, q, todo \ {i}>> :
                          d \in {d \in draws : ~Emits(st, i, d)}}
             built == {<<Spawned(st, i, d, k, b),
                         q \cup {Spawn(st, i, d, k)}, todo \ {i}>> :
                          d \in {d \in draws : Emits(st, i, d)},
                          b \in BorderCells(n)}
         IN  UNION {SpawnedAll(r[1], r[2], r[3], n) :
                       r \in quiet \cup built}

\* The agents Commit removes: those whose Alive() is false.
Dead(st, members) == {i \in members : ~Alive(st, i)}

\* The heap without the objects in gone, which nothing refers to any more.
Collected(st, gone) ==
    [ag |-> [i \in DOMAIN st.ag |-> IF i \in gone THEN NoAgent ELSE st.ag[i]],
     hx |-> [i \in DOMAIN st.hx |-> IF i \in gone THEN NoHex ELSE st.hx[i]],
     bl |-> [i \in DOMAIN st.bl |-> IF i \in gone THEN FALSE ELSE st.bl[i]]]

\* Scenarios of the population of a world.
TickWideCasts == { <<"Food", "none", "none">> }

TickSmallCasts == { <<"Predator", "Prey">>, <<"Prey", "Food", "none">>,
                    <<"Predator", "Food", "none">> }

Started ==
    /\ pop = {i \in Slots : heap.ag[i].kind # "none"}
    /\ queue = {}
    /\ phase = "move"
    /\ age = [i \in Slots |-> 0]
    /\ last = NoCall
    /\ walk = NoWalk

TickInit ==
    /\ \/ /\ size = WideWorld
          /\ \E cast \in TickWideCasts : heap \in Scene(cast, size)
       \/ /\ size = SmallWorld
          /\ \E cast \in TickSmallCasts : heap \in Scene(cast, size)
    /\ Started

MovePhase ==
    /\ phase = "move"
    /\ heap' \in Moved(heap, pop, size)
    /\ age' = [i \in Slots |->
                 IF i \in pop /\ heap.ag[i].kind = "Scent"
                 THEN age[i] + 1 ELSE age[i]]
    /\ phase' = "interact"
    /\ UNCHANGED <<size, pop, queue, last, walk>>

InteractPhase ==
    /\ phase = "interact"
    /\ heap' \in Interacted(heap, Meetings(heap, pop))
    /\ phase' = "spawn"
    /\ UNCHANGED <<size, pop, queue, age, last, walk>>

SpawnPhase ==
    /\ phase = "spawn"
    /\ \E r \in SpawnedAll(heap, {}, pop, size) :
          /\ heap' = r[1]
          /\ queue' = r[2]
    /\ phase' = "commit"
    /\ UNCHANGED <<size, pop, age, last, walk>>

CommitPhase ==
    /\ phase = "commit"
    /\ pop' = (pop \ Dead(heap, pop)) \cup queue
    /\ heap' = Collected(heap, Dead(heap, pop))
    /\ age' = [i \in Slots |-> IF i \in Dead(heap, pop) THEN 0 ELSE age[i]]
    /\ queue' = {}
    /\ phase' = "move"
    /\ UNCHANGED <<size, last, walk>>

TickNext == MovePhase \/ InteractPhase \/ SpawnPhase \/ CommitPhase

TickSpec == TickInit /\ [][TickNext]_vars

----------------------------------------------------------------------------
(* MeetSpec: the ticks of a world where two emitters stand on different    *)
(* cells, so that trails of different origins can cross a follower.        *)

MeetCasts == { <<"Predator", "Food", "Food", "none", "none">> }

MeetInit ==
    /\ size = SmallWorld
    /\ \E cast \in MeetCasts : heap \in Scene(cast, size)
    /\ Position(heap, 2) # Position(heap, 3)
    /\ Started

MeetSpec == MeetInit /\ [][TickNext]_vars

----------------------------------------------------------------------------
(* WalkSpec: one Predator or Prey updated, with no other call, until it    *)
(* has made as many Updates as its goal was steps away.                    *)

WalkCasts == { <<"Predator">>, <<"Prey">> }

WalkInit ==
    /\ size = WideWorld
    /\ \E cast \in WalkCasts : heap \in Scene(cast, size)
    /\ Distance(Position(heap, 1), heap.hx[heap.ag[1].goal]) >= 1
    /\ pop = {}
    /\ queue = {}
    /\ phase = "idle"
    /\ age = [i \in Slots |-> 0]
    /\ last = NoCall
    /\ walk = [on |-> TRUE, who |-> 1, g0 |-> heap.hx[heap.ag[1].goal],
               d0 |-> Distance(Position(heap, 1), heap.hx[heap.ag[1].goal]),
               steps |-> 0, fires |-> 0]

WalkUpdate ==
    /\ walk.on
    /\ walk.steps < walk.d0
    /\ \E cell \in RandomFor(heap, walk.who, size) :
          heap' = Update(heap, walk.who, cell)
    /\ walk' = [walk EXCEPT
                  !.steps = @ + 1,
                  !.fires = IF AsksRandom(heap, walk.who) THEN @ + 1 ELSE @]
    /\ last' = [NoCall EXCEPT !.op = "Update", !.self = walk.who]
    /\ UNCHANGED <<size, pop, queue, phase, age>>

WalkSpec == WalkInit /\ [][WalkUpdate]_vars

----------------------------------------------------------------------------
(* Properties *)

\* The alive variable the Mortal trait of slot i points to.
Flag(st, i) == st.bl[st.ag[i].alive]

\* The goal variable the Mobile trait of slot i points to.
Goal(st, i) == st.hx[st.ag[i].goal]

Kind(i) == heap.ag[i].kind

\* A Predator of the population stands on the cell of agent i.
MeetsPredator(i) ==
    \E j \in pop \ {i} :
        Kind(j) = "Predator" /\ Position(heap, j) = Position(heap, i)

EatenPreys == {i \in pop : Kind(i) = "Prey" /\ MeetsPredator(i)}

\* C1: a Prey that shared a cell with a Predator in the Interact phase of a
\* tick has its alive flag false from then to that tick's Commit, and Commit
\* takes it out of the population the next tick starts with.
C1_EatenPreyRemoved ==
    /\ [](phase \in {"spawn", "commit"} =>
            \A i \in EatenPreys : ~Flag(heap, i))
    /\ [][phase = "commit" => \A i \in EatenPreys : i \notin pop']_vars

C1_Witness ==
    /\ phase = "commit"
    /\ \E i \in EatenPreys : ~Flag(heap, i) /\ ~Alive(heap, i)

\* C2: on a Food, AcceptPrey leaves the alive flag false (Alive() returns
\* false), and AcceptPredator and AcceptScent change neither its alive
\* flag, nor its location, nor its emission rate.
C2_FoodReactions ==
    /\ [](last.op = "AcceptPrey" /\ Kind(last.self) = "Food" =>
            ~Flag(heap, last.self) /\ ~Alive(heap, last.self))
    /\ [][last'.op \in {"AcceptPredator", "AcceptScent"}
            /\ Kind(last'.self) = "Food" =>
               /\ Flag(heap', last'.self) = Flag(heap, last'.self)
               /\ Position(heap', last'.self) = Position(heap, last'.self)
               /\ heap'.ag[last'.self].rate = heap.ag[last'.self].rate]_vars

C2_Witness ==
    /\ last.op = "AcceptPrey"
    /\ Kind(last.self) = "Food"
    /\ Kind(last.arg) = "Prey"
    /\ ~Alive(heap, last.self)

\* C3: a Predator is immortal and emits nothing: in every state, whatever
\* calls were made on it, Alive() is true, and every Spawn() on it has
\* returned nil.
C3_PredatorImmortal ==
    \A i \in Slots :
        Kind(i) = "Predator" =>
            /\ Alive(heap, i)
            /\ last.op = "Spawn" /\ last.self = i => last.ret = Nil

C3_Witness ==
    /\ last.op = "AcceptPredator"
    /\ Kind(last.self) = "Predator"
    /\ Kind(last.arg) = "Predator"
    /\ Alive(heap, last.self)


\* The slots a Scent is built in by the step.
Born == {s \in Slots : Kind(s) = "none" /\ heap'.ag[s].kind = "Scent"}

Scents == {s \in Slots : Kind(s) = "Scent"}

\* C4: a Scent's Origin() is the position its emitter had when NewScent was
\* called, and no later step changes it: not the Scent's own Updates, not
\* the emitter's.
C4_OriginFixed ==
    [][/\ \A s \in Born :
             Origin(heap', s) = Position(heap, last'.arg)
       /\ \A s \in Scents : Origin(heap', s) = Origin(heap, s)]_vars

C4_Witness ==
    \E s \in Scents :
        /\ last.op = "Update"
        /\ Origin(heap, s) # Position(heap, s)
        /\ \A a \in Slots \ {s} : Origin(heap, s) # Position(heap, a)

\* C5: a Scent is alive until its first Update that ends on its goal, and
\* dead right after it: a Scent is built alive, its flag falls only in an
\* Update of it that ends with its location on its goal, and after every
\* such Update the flag is false (a Scent built on its goal cell included).
C5_ScentDiesOnGoal ==
    /\ [](last.op = "Update" /\ Kind(last.self) = "Scent"
            /\ Position(heap, last.self) = Goal(heap, last.self)
          => ~Flag(heap, last.self))
    /\ [][/\ \A s \in Born : Flag(heap', s)
          /\ \A s \in Scents :
                Flag(heap, s) /\ ~Flag(heap', s) =>
                   /\ last'.op = "Update"
                   /\ last'.self = s
                   /\ Position(heap', s) = Goal(heap', s)]_vars

C5_Witness ==
    /\ last.op = "Update"
    /\ Kind(last.self) = "Scent"
    /\ Origin(heap, last.self) = Goal(heap, last.self)
    /\ ~Alive(heap, last.self)

Followers == {i \in Slots : Kind(i) \in {"Predator", "Prey"}}

\* C7: AcceptScent(s) on a Predator or a Prey makes s.Origin() the goal its
\* Mobile trait holds and leaves its location and alive flag as they were;
\* the Update that follows steps toward that origin, and keeps it as the
\* goal unless the step arrives on it.
C7_FollowsOrigin ==
    /\ [](last.op = "AcceptScent" /\ last.self \in Followers =>
            Goal(heap, last.self) = Origin(heap, last.arg))
    /\ [][/\ last'.op = "AcceptScent" /\ last'.self \in Followers =>
               /\ Position(heap', last'.self) = Position(heap, last'.self)
               /\ Alive(heap', last'.self) = Alive(heap, last'.self)
               /\ heap'.bl = heap.bl
          /\ last.op = "AcceptScent" /\ last.self \in Followers
               /\ last'.op = "Update" /\ last'.self = last.self =>
               /\ Position(heap', last.self)
                     = Closer(Position(heap, last.self),
                              Origin(heap, last.arg))
               /\ Position(heap', last.self) # Origin(heap, last.arg) =>
                     Goal(heap', last.self) = Origin(heap, last.arg)]_vars

C7_Witness ==
    /\ last.op = "AcceptScent"
    /\ Kind(last.self) = "Prey"
    /\ Origin(heap, last.arg) # Position(heap, last.arg)
    /\ Origin(heap, last.arg) # Position(heap, last.self)
    /\ Goal(heap, last.self) = Origin(heap, last.arg)

\* C9: Food.Spawn() returns an agent exactly when the draw from 0 .. 4 is 0
\* and nil otherwise; the agent is a live Scent at the Food's location, with
\* that location as its origin and a border cell of the world as its goal.
C9_FoodSpawn ==
    last.op = "Spawn" /\ Kind(last.self) = "Food" =>
        /\ heap.ag[last.self].rate = 5
        /\ last.draw \in 0 .. 4
        /\ last.ret # Nil <=> last.draw = 0
        /\ last.ret # Nil =>
              /\ Kind(last.ret) = "Scent"
              /\ Alive(heap, last.ret)
              /\ Position(heap, last.ret) = Position(heap, last.self)
              /\ Origin(heap, last.ret) = Position(heap, last.self)
              /\ Goal(heap, last.ret) \in BorderCells(size)

C9_Witness ==
    /\ last.op = "Spawn"
    /\ Kind(last.self) = "Food"
    /\ last.ret # Nil
    /\ Kind(last.ret) = "Scent"


\* The steps between the cell a Scent was emitted on and its goal.
Trail(i) == Distance(Origin(heap, i), heap.hx[heap.ag[i].goal])

PopScents == {i \in pop : Kind(i) = "Scent"}

\* C6: every Scent of the population dies and leaves it within
\* max(1, distance(origin, goal)) ticks: the ticks having made k Updates on
\* it, k is at most that number, and less while it is alive; Commit takes a
\* dead Scent out of the population, and no tick starts with one in it.
C6_ScentLeaves ==
    /\ [](\A i \in PopScents :
            /\ age[i] <= Max2(1, Trail(i))
            /\ Flag(heap, i) => age[i] < Max2(1, Trail(i)))
    /\ [](phase = "move" => \A i \in PopScents : Flag(heap, i))
    /\ [][phase = "commit" =>
            \A i \in PopScents : ~Flag(heap, i) => i \notin pop']_vars

C6_Witness ==
    /\ phase = "commit"
    /\ \E i \in PopScents :
          /\ ~Alive(heap, i)
          /\ Trail(i) >= 2
          /\ age[i] = Trail(i)

\* C8: a Predator or Prey whose goal g is d >= 1 steps away is, after k <= d
\* Updates and no other call, d - k steps from g; before the d-th Update
\* the goal-reached reaction has not fired and g is still the goal; after
\* the d-th the agent is on g, the reaction has fired exactly once and the
\* goal is a cell of the world.
C8_WalkToGoal ==
    walk.on =>
        /\ walk.d0 >= 1
        /\ Distance(Position(heap, walk.who), walk.g0)
              = walk.d0 - walk.steps
        /\ walk.steps < walk.d0 =>
              /\ walk.fires = 0
              /\ Goal(heap, walk.who) = walk.g0
        /\ walk.steps = walk.d0 =>
              /\ Position(heap, walk.who) = walk.g0
              /\ walk.fires = 1
              /\ Goal(heap, walk.who) \in Cells(size)

C8_Witness ==
    /\ walk.on
    /\ walk.d0 >= 3
    /\ walk.steps = walk.d0
    /\ walk.fires = 1
    /\ Position(heap, walk.who) = walk.g0
    /\ Goal(heap, walk.who) # walk.g0

\* C10: a tick runs Move, Interact, Spawn, Commit in this order; the
\* population changes in Commit only; Commit adds every agent the Spawn
\* phase built, and leaves no agent whose alive flag is false, so that
\* every tick starts with none.
C10_CommitPopulation ==
    /\ [](phase = "move" =>
            /\ queue = {}
            /\ \A i \in pop :
                  /\ Kind(i) # "none"
                  /\ heap.ag[i].alive # Nil => Flag(heap, i))
    /\ [][/\ phase = "move" => phase' = "interact"
          /\ phase = "interact" => phase' = "spawn"
          /\ phase = "spawn" => phase' = "commit" /\ queue' = Born
          /\ phase = "commit" => phase' = "move" /\ queue \subseteq pop'
          /\ phase # "commit" => pop' = pop]_vars

C10_Witness ==
    /\ phase = "move"
    /\ \E i \in PopScents :
          \E k \in Slots : k < i /\ Kind(k) = "none"


\* C11: the locations, goals and alive flags a tick leaves do not depend on
\* the order its encounters are dispatched in: whatever order the pairs of
\* agents sharing a cell are taken in, and whichever of the two is notified
\* first, the Interact phase leaves the same heap.
C11_OrderIndependent ==
    phase = "interact" =>
        \A h1, h2 \in Interacted(heap, Meetings(heap, pop)) : h1 = h2


\* The agents with a Mobile trait.
Mobiles == {i \in Objects : heap.ag[i].goal # Nil}

\* a.Update() from this state: each cell World.Random can return to it,
\* with the heap the Update leaves.
Drawn(a) == {<<c, Update(heap, a, c)>> : c \in RandomFor(heap, a, size)}

\* C12: for two distinct agents a and b and the cells World.Random returns
\* to each, a.Update() then b.Update() leaves the same locations, goals and
\* alive flags as b.Update() then a.Update(), and neither Update changes
\* whether the other draws a cell.
C12_UpdatesCommute ==
    \A a, b \in Objects :
        a < b =>
            /\ \A x \in Drawn(a), y \in Drawn(b) :
                  Update(x[2], b, y[1]) = Update(y[2], a, x[1])
            /\ \A x \in Drawn(a) :
                  RandomFor(x[2], b, size) = RandomFor(heap, b, size)
            /\ \A y \in Drawn(b) :
                  RandomFor(y[2], a, size) = RandomFor(heap, a, size)

C12_Witness ==
    /\ last.op = "Update"
    /\ \E a, b \in Mobiles :
          /\ a # b
          /\ AsksRandom(heap, a)
          /\ Position(heap, b) # Goal(heap, b)
          /\ Goal(heap, a) # Goal(heap, b)


\* C13: in every reachable state every agent's location is a cell of its
\* world: at construction, and after any sequence of Update, AcceptScent,
\* AcceptPredator and AcceptPrey calls.
C13_InBounds ==
    \A i \in Objects : Position(heap, i) \in Cells(size)

C13_Witness ==
    /\ last.op = "Update"
    /\ last.self \in Followers
    /\ \E s \in Scents :
          /\ Goal(heap, last.self) = Origin(heap, s)
          /\ Position(heap, last.self) # Origin(heap, s)
          /\ Position(heap, s) # Origin(heap, s)
    /\ Position(heap, last.self) \in BorderCells(size)


Reactions == {"AcceptPredator", "AcceptPrey", "AcceptScent"}

\* C14: a reaction x.AcceptPredator(y), x.AcceptPrey(y) or x.AcceptScent(y)
\* changes at most the goal variable and the alive variable of x: it leaves
\* every location, origin and other field of every agent struct, every
\* other agent's goal and alive flag (those of y included), and the
\* world's population and spawn queue as they were.
C14_ReactionFrame ==
    [][last'.op \in Reactions =>
         /\ heap'.ag = heap.ag
         /\ \A k \in Slots :
               /\ k # heap.ag[last'.self].goal => heap'.hx[k] = heap.hx[k]
               /\ k # heap.ag[last'.self].alive => heap'.bl[k] = heap.bl[k]
         /\ \A k \in Objects \ {last'.self} :
               /\ heap.ag[k].goal # Nil => Goal(heap', k) = Goal(heap, k)
               /\ Alive(heap', k) = Alive(heap, k)
         /\ pop' = pop
         /\ queue' = queue]_vars

C14_Witness ==
    /\ last.op = "AcceptPredator"
    /\ Kind(last.self) = "Prey"
    /\ Kind(last.arg) = "Predator"
    /\ ~Alive(heap, last.self)
    /\ Alive(heap, last.arg)
    /\ Position(heap, last.self) # Position(heap, last.arg)


\* C15: Spawn on an Emitter whose rate is <= 0 ends in a panic: the call
\* returns neither nil nor an agent, builds nothing, and no call follows.
C15_FailFast ==
    /\ [](\A i \in Objects :
            last.self = i /\ heap.ag[i].emitter /\ heap.ag[i].rate <= 0 =>
               /\ last.op = "panic"
               /\ FreeSlots(heap) = Slots \ {i})
    /\ [][last.op # "panic"]_vars

C15_Witness ==
    /\ last.op = "panic"
    /\ heap.ag[last.self].emitter
    /\ heap.ag[last.self].rate = 0


Foods == {i \in Slots : Kind(i) = "Food"}

\* C16: a Food never moves: no Update, Spawn, AcceptPredator, AcceptPrey or
\* AcceptScent call, on it or on another agent, changes its location, while
\* it is alive or after it has died.
C16_FoodStays ==
    [][\A i \in Foods :
          /\ heap'.ag[i].kind = "Food"
          /\ Position(heap', i) = Position(heap, i)]_vars

C16_Witness ==
    /\ last.op = "Update"
    /\ Kind(last.self) = "Food"
    /\ ~Alive(heap, last.self)
    /\ Position(heap, last.self) # <<0, 0>>

\* C17: an Update of a mobile agent takes one step toward its goal and
\* runs the goal-reached reaction exactly when the location after the step
\* is the goal: a Predator or Prey then draws one cell for its new goal and
\* otherwise keeps its goal, a live Scent then dies and otherwise stays
\* alive.  An agent already on its goal does not move and the reaction
\* runs again.
C17_ReactionOnArrival ==
    [][last'.op = "Update" /\ heap.ag[last'.self].goal # Nil =>
         \A x \in {last'.self} :
         \A was \in {Position(heap, x)}, now \in {Position(heap', x)} :
         \A g \in {Goal(heap, x)}, fired \in {AsksRandom(heap, x)} :
            /\ now = Closer(was, g)
            /\ Kind(x) # "Scent" =>
                  /\ fired <=> now = g
                  /\ ~fired => Goal(heap', x) = g
                  /\ Goal(heap', x) \in Cells(size)
            /\ Kind(x) = "Scent" =>
                  /\ Goal(heap', x) = g
                  /\ Flag(heap, x) => (~Flag(heap', x) <=> now = g)
            /\ was = g =>
                  /\ now = was
                  /\ Kind(x) # "Scent" => fired
                  /\ Kind(x) = "Scent" => ~Flag(heap', x)]_vars

C17_Witness ==
    /\ last.op = "Update"
    /\ last.self \in Scents
    /\ Position(heap, last.self) = Origin(heap, last.self)
    /\ Position(heap, last.self) = Goal(heap, last.self)
    /\ ~Flag(heap, last.self)


\* The agents with a Mortal trait.
Mortals == {i \in Objects : heap.ag[i].alive # Nil}

\* C18: death is permanent: a Prey, Food or Scent whose Alive() is false
\* has Alive() false after every further Update, Spawn, AcceptPredator,
\* AcceptPrey or AcceptScent call, and no call sets the alive variable of
\* an agent back to true.
C18_DeathPermanent ==
    [][\A i \in Mortals :
          ~Alive(heap, i) =>
             /\ heap'.ag[i].alive = heap.ag[i].alive
             /\ ~Alive(heap', i)
             /\ ~Flag(heap', i)]_vars

C18_Witness ==
    /\ last.op = "Update"
    /\ Kind(last.self) = "Prey"
    /\ ~Alive(heap, last.self)
    /\ \E p \in Objects : Kind(p) = "Predator"

\* The method calls on an agent.
Calls == {"Update", "Spawn", "AcceptPredator", "AcceptPrey", "AcceptScent"}

\* C19: agents share no mutable state: the goal variables of two mobile
\* agents are different variables, and so are the alive variables of two
\* mortal agents; a call on one agent changes the goal and the alive flag
\* of no other agent.
C19_NoSharedState ==
    /\ [](\A i, j \in Objects :
            i # j =>
               /\ heap.ag[i].goal # Nil => heap.ag[i].goal # heap.ag[j].goal
               /\ heap.ag[i].alive # Nil =>
                     heap.ag[i].alive # heap.ag[j].alive)
    /\ [][last'.op \in Calls =>
            \A k \in Objects \ {last'.self} :
               /\ heap.ag[k].goal # Nil => Goal(heap', k) = Goal(heap, k)
               /\ Alive(heap', k) = Alive(heap, k)]_vars

C19_Witness ==
    /\ last.op = "AcceptPrey"
    /\ Kind(last.self) = "Food"
    /\ ~Alive(heap, last.self)
    /\ last.arg \in Mortals
    /\ Alive(heap, last.arg)

\* C20: the alive flag of a mortal agent changes only through its one
\* cause: a Prey's in AcceptPredator on it, a Food's in AcceptPrey on it, a
\* Scent's in an Update of it that ends on its goal; and AcceptPredator,
\* AcceptPrey and AcceptScent on a Scent change neither its goal nor its
\* alive flag.
C20_OneCause ==
    [][/\ \A i \in Mortals :
             Flag(heap', i) # Flag(heap, i) =>
                /\ last'.self = i
                /\ Kind(i) = "Prey" => last'.op = "AcceptPredator"
                /\ Kind(i) = "Food" => last'.op = "AcceptPrey"
                /\ Kind(i) = "Scent" =>
                      /\ last'.op = "Update"
                      /\ Position(heap', i) = Goal(heap', i)
       /\ last'.op \in Reactions /\ Kind(last'.self) = "Scent" =>
             /\ Goal(heap', last'.self) = Goal(heap, last'.self)
             /\ Flag(heap', last'.self) = Flag(heap, last'.self)]_vars

C20_Witness ==
    /\ last.op = "AcceptPrey"
    /\ Kind(last.self) = "Scent"
    /\ Kind(last.arg) = "Prey"
    /\ Alive(heap, last.self)
    /\ Position(heap, last.self) # Goal(heap, last.self)

====
